---- MODULE Spec2Model ----
(***************************************************************************)
(* Model of markdown-world's coordination core:                            *)
(*   - MarkdownWorkerManager (renderer/src/utils/markdownWorkerManager.ts) *)
(*     together with the worker script it talks to,                        *)
(*   - ScrollSyncLock (renderer/src/utils/scrollSyncLock.ts),              *)
(*   - ScrollSyncMapper and the scroll handlers of App.                    *)
(* Every component has its own specification over the shared variables;    *)
(* the variables of the other components keep their initial values.        *)
(***************************************************************************)
EXTENDS Integers, Sequences, FiniteSets, TLC

VARIABLES
    \* ---- MarkdownWorkerManager ----
    worker,           \* "Worker" | "null"            (this.worker)
    messageId,        \* this.messageId
    pendingRequests,  \* id -> index of the promise whose resolve/reject it holds
    promises,         \* the promises returned by parseMarkdown, in call order
    toWorker,         \* posted messages the worker has not handled yet
    fromWorker,       \* responses the worker posted, not yet delivered
    \* ---- ScrollSyncLock ----
    currentSource,    \* "editor" | "preview" | "null"
    lockTimeout,      \* ms a holder keeps the lock at most (setLockTimeout)
    debounceDelay,    \* ms of quiet before a debounced callback runs (setDebounceDelay)
    lockTimer,        \* NullRef | [source, left, live]
    debounceTimer,    \* NullRef | [source, cb, left, delay]: setTimeout(..., delay)
    syncingTo,        \* "editor" | "preview" | "null"
    syncTimer,        \* NullRef | [left]
    releaseTimers,    \* the untracked setTimeout(release(source), 100) timers, oldest
                      \* first: a sequence of [source, left]
    \* ---- App / DOM ----
    mappings,         \* ScrollSyncMapper.mappings
    previewDom,       \* the [data-line] elements of the preview, in document order
    previewScrollTop, \* previewContainer.scrollTop
    editorLine,       \* line last revealed by editor.scrollToLine
    mounted,          \* the App component is mounted (refs are set)
    previewContainer, \* ScrollSyncMapper.previewContainer: "div" | "null"
    markdownContent,  \* useState('') of App: the text of the editor
    htmlPreview,      \* useState('') of App: the html the preview shows
    isLoading,        \* useState(false) of App
    awaiting,         \* the handlePreview calls suspended at their await
    queued,           \* the updates of App's state React has not rendered yet: for each
                      \* handlePreview call that went on, [p, shown, set, html]
    effectPending,    \* the effect of the last change of htmlPreview has not run yet
    rebuildTimers,    \* pending setTimeout(..., 0) callbacks of the rebuild effect
    quiet,            \* the environment has stopped producing events
    \* ---- measurements (not program state) ----
    hintAge,          \* ms since the latest markSyncingTo whose hint is still set, else -1
    debounceAge,      \* ms since the latest debounce call still pending, else -1
    burst,            \* "none" | "single" | "restarted": the calls of the pending burst
    builtFrom,        \* the content the mapping table was built from, else NullRef
    \* ---- observation ----
    ev                \* the operation performed by the last step and its result

dispVars   == <<worker, messageId, pendingRequests, promises, toWorker, fromWorker>>
lockVars   == <<currentSource, lockTimeout, debounceDelay, lockTimer, debounceTimer,
               syncingTo, syncTimer, releaseTimers>>
ageVars    == <<hintAge, debounceAge, burst>>
flowVars   == <<markdownContent, htmlPreview, isLoading, awaiting, queued, effectPending,
               rebuildTimers>>
viewVars   == <<previewContainer, builtFrom, flowVars>>
appVars    == <<mappings, previewDom, previewScrollTop, editorLine, mounted, quiet, viewVars>>
vars       == <<dispVars, lockVars, ageVars, appVars, ev>>

NULL == "null"
\* a null reference where the non-null values are records (timers, mappings)
NullRef == [null |-> TRUE]

(***************************************************************************)
(* Bounds                                                                  *)
(***************************************************************************)
MaxSubmit == 3      \* parseMarkdown calls per behaviour
MaxPreview == 2     \* preview requests of App per behaviour

\* a document of white space only: it is truthy and renders to no element
Blank == " "
\* the documents that are parsed
Markdowns == {"a", "b", Blank}
\* error.message values the worker can report (part_001:77)
ErrorMessages == {"boom", ""}
UNDEFINED == "undefined"
\* the two fixed Error messages of the manager (lines 71 and 58), transliterated
ErrNotInitialized == "Worker not initialized"
ErrWorker == "Worker error"

(***************************************************************************)
(* Worker script (markdown.worker.ts)                                      *)
(***************************************************************************)
\* String(result) of the unified pipeline for a document of one paragraph, or
\* of none: rehypeAddLineNumbers gives the paragraph its starting line
Render(markdown) ==
    IF markdown = Blank THEN ""
    ELSE "<p data-line=\"1\">" \o markdown \o "</p>"

\* the two responses the message listener of the worker can post
WorkerResponses(msg) ==
    {[id |-> msg.id, html |-> Render(msg.markdown), error |-> UNDEFINED]}
    \cup {[id |-> msg.id, html |-> "", error |-> e] : e \in ErrorMessages}

(***************************************************************************)
(* MarkdownWorkerManager                                                   *)
(***************************************************************************)
\* JavaScript truthiness of the optional string `error`
Truthy(s) == s # UNDEFINED /\ s # ""

\* a lookup that ignores the id and takes the oldest pending entry
PendingGetFirst(id) ==
    IF DOMAIN pendingRequests = {} THEN 0
    ELSE pendingRequests[CHOOSE k \in DOMAIN pendingRequests :
                            \A j \in DOMAIN pendingRequests : k <= j]

\* a lookup that falls back on the latest pending entry for an id it does not find
PendingGetLatest(id) ==
    IF id \in DOMAIN pendingRequests THEN pendingRequests[id]
    ELSE IF DOMAIN pendingRequests = {} THEN 0
    ELSE pendingRequests[CHOOSE k \in DOMAIN pendingRequests :
                            \A j \in DOMAIN pendingRequests : k >= j]

\* this.pendingRequests.get(id): the promise index, 0 for undefined
PendingGet(id) ==
    IF id \in DOMAIN pendingRequests THEN pendingRequests[id] ELSE 0

\* this.pendingRequests.delete(id)
PendingDelete(id) ==
    [k \in DOMAIN pendingRequests \ {id} |-> pendingRequests[k]]

\* pending.resolve(html) / pending.reject(new Error(msg)) on promise p:
\* only the first call settles a promise, every call is counted
Settle(ps, p, st, val) ==
    [ps EXCEPT ![p] = [@ EXCEPT !.state = IF @ = "pending" THEN st ELSE @,
                                !.value = IF ps[p].state = "pending" THEN val ELSE @,
                                !.calls = @ + 1]]

\* an id taken from the size of the pending table
NextIdReuse == Cardinality(DOMAIN pendingRequests) + 1

\* ++this.messageId
NextId == messageId + 1

\* async parseMarkdown(markdown): what it does to the manager, and the promise
\* it returns (the last of promises')
parseMarkdownEffect(markdown) ==
    IF worker = NULL
    THEN \* throw inside an async function: a promise that is already rejected
         /\ promises' = Append(promises,
                [id |-> 0, state |-> "rejected", value |-> ErrNotInitialized, calls |-> 0])
         /\ UNCHANGED <<worker, messageId, pendingRequests, toWorker, fromWorker>>
    ELSE LET id == NextId IN
         /\ messageId' = id
         /\ promises' = Append(promises,
                [id |-> id, state |-> "pending", value |-> "", calls |-> 0])
         /\ pendingRequests' =
                [k \in DOMAIN pendingRequests \cup {id} |->
                    IF k = id THEN Len(promises) + 1 ELSE pendingRequests[k]]
         /\ toWorker' = toWorker \cup {[id |-> id, markdown |-> markdown]}
         /\ UNCHANGED <<worker, fromWorker>>

\* a call of parseMarkdown(markdown)
parseMarkdown(markdown) ==
    /\ Len(promises) < MaxSubmit
    /\ parseMarkdownEffect(markdown)
    /\ ev' = [op |-> "parseMarkdown", id |-> promises'[Len(promises')].id]
    /\ UNCHANGED <<lockVars, ageVars, appVars>>

\* the worker handles one posted message and posts its response
WorkerHandle(msg, resp) ==
    /\ worker # NULL
    /\ msg \in toWorker
    /\ resp \in WorkerResponses(msg)
    /\ toWorker' = toWorker \ {msg}
    /\ fromWorker' = fromWorker \cup {resp}
    /\ ev' = [op |-> "workerHandle", id |-> msg.id]
    /\ UNCHANGED <<worker, messageId, pendingRequests, promises, lockVars, ageVars, appVars>>

\* worker.addEventListener('message', ...): the listener, run for data
OnMessageEffect(data) ==
    LET pending == PendingGet(data.id) IN
    /\ worker # NULL
    /\ data \in fromWorker
    /\ fromWorker' = fromWorker \ {data}
    /\ IF pending # 0
       THEN /\ promises' = IF Truthy(data.error)
                           THEN Settle(promises, pending, "rejected", data.error)
                           ELSE Settle(promises, pending, "resolved", data.html)
            /\ pendingRequests' = PendingDelete(data.id)
       ELSE UNCHANGED <<promises, pendingRequests>>
    /\ UNCHANGED <<worker, messageId, toWorker>>

\* the delivery of the response data to the manager
OnMessage(data) ==
    /\ OnMessageEffect(data)
    /\ ev' = [op |-> "message", data |-> data]
    /\ UNCHANGED <<lockVars, ageVars, appVars>>

\* a listener that clears the table without rejecting anybody
RejectNone(ps, ids, msg) == ps

\* this.pendingRequests.forEach(pending => pending.reject(...))
RECURSIVE RejectAll(_, _, _)
RejectAll(ps, ids, msg) ==
    IF ids = {} THEN ps
    ELSE LET k == CHOOSE i \in ids : \A j \in ids : i <= j
         IN RejectAll(Settle(ps, pendingRequests[k], "rejected", msg), ids \ {k}, msg)

\* worker.addEventListener('error', ...): the listener
OnErrorEffect ==
    /\ worker # NULL
    /\ promises' = RejectAll(promises, DOMAIN pendingRequests, ErrWorker)
    /\ pendingRequests' = <<>>
    /\ UNCHANGED <<worker, messageId, toWorker, fromWorker>>

\* the worker's 'error' event
OnError ==
    /\ OnErrorEffect
    /\ ev' = [op |-> "error"]
    /\ UNCHANGED <<lockVars, ageVars, appVars>>

\* a terminate that stops the worker but keeps the reference to it
terminateKeepWorker ==
    /\ toWorker' = {}
    /\ fromWorker' = {}
    /\ pendingRequests' = <<>>
    /\ UNCHANGED <<worker, messageId, promises>>

\* terminate(): a terminated worker handles and delivers nothing any more
terminateEffect ==
    /\ IF worker # NULL
       THEN /\ worker' = NULL
            /\ toWorker' = {}
            /\ fromWorker' = {}
       ELSE UNCHANGED <<worker, toWorker, fromWorker>>
    /\ pendingRequests' = <<>>
    /\ UNCHANGED <<messageId, promises>>

terminate ==
    /\ terminateEffect
    /\ ev' = [op |-> "terminate"]
    /\ UNCHANGED <<lockVars, ageVars, appVars>>

(***************************************************************************)
(* ScrollSyncMapper                                                        *)
(***************************************************************************)
MaxLine == 3        \* source lines are 1..MaxLine
MaxTop == 3         \* pixel offsets are 0..MaxTop

MaxElems == 3       \* [data-line] elements of a surface the mapper is built on

Lines == 1..MaxLine
Tops == 0..MaxTop

Max(a, b) == IF a >= b THEN a ELSE b
Min(a, b) == IF a <= b THEN a ELSE b

\* An element matched by querySelectorAll('[data-line]'): the value of its
\* data-line attribute (its code units) and top2, twice the distance in pixels from the top of
\* the container's content to its border box (layout positions are fractional;
\* they are kept to the half pixel)
Element(attr, top2) == [attr |-> attr, top2 |-> top2]

Radix == 10

\* A string that is read character by character is the sequence of its UTF-16
\* code units. The characters a text of this module is spelled with: tab,
\* line feed, form feed, carriage return, and the printable ones from the
\* space (32) to the underscore (95) and from a (97) to the tilde (126)
AsciiLow == " !\"#$%&'()*+,-./0123456789:;<=>?@ABCDEFGHIJKLMNOPQRSTUVWXYZ[\\]^_"
AsciiHigh == "abcdefghijklmnopqrstuvwxyz{|}~"
IndexIn(chars, c) == CHOOSE i \in 1..Len(chars) : SubSeq(chars, i, i) = c
CodeUnit(c) ==
    IF c = "\t" THEN 9
    ELSE IF c = "\n" THEN 10
    ELSE IF c = "\f" THEN 12
    ELSE IF c = "\r" THEN 13
    ELSE IF \E i \in 1..Len(AsciiLow) : SubSeq(AsciiLow, i, i) = c
         THEN 31 + IndexIn(AsciiLow, c)
    ELSE 96 + IndexIn(AsciiHigh, c)
\* the code units of the text s
CodeUnits(s) == [i \in 1..Len(s) |-> CodeUnit(SubSeq(s, i, i))]

\* the digits 0 to 9
IsDigit(c) == c \in 48..57
DigitValue(c) == c - 48

\* the leading digits of s read in base Radix; NaN when s starts with none
RECURSIVE ParseDigits(_, _, _)
ParseDigits(s, acc, seen) ==
    IF Len(s) > 0 /\ IsDigit(s[1])
    THEN ParseDigits(Tail(s), acc * Radix + DigitValue(s[1]), TRUE)
    ELSE [isNaN |-> ~seen, value |-> acc]

\* StrWhiteSpaceChar: the WhiteSpace TAB, VT, FF, ZWNBSP (U+FEFF) and the
\* space separators (SP, NBSP, U+1680, U+2000 to U+200A, U+202F, U+205F,
\* U+3000), and the LineTerminators LF, CR, LS (U+2028), PS (U+2029)
WhiteSpace ==
    {9, 11, 12, 65279, 32, 160, 5760} \cup (8192..8202) \cup {8239, 8287, 12288}
    \cup {10, 13, 8232, 8233}
IsWhiteSpace(c) == c \in WhiteSpace

\* the string without its leading white space (StrWhiteSpaceChar)
RECURSIVE TrimStart(_)
TrimStart(s) ==
    IF Len(s) > 0 /\ IsWhiteSpace(s[1]) THEN TrimStart(Tail(s)) ELSE s

\* parseInt(string, 10): leading white space, an optional sign, then digits up
\* to the first character that is none; isNaN tells whether the result is NaN
parseInt(string) ==
    LET s == TrimStart(string)
        signed == Len(s) > 0 /\ s[1] \in {45, 43}
        r == ParseDigits(IF signed THEN Tail(s) ELSE s, 0, FALSE)
    IN [isNaN |-> r.isNaN,
        value |-> IF signed /\ s[1] = 45 THEN 0 - r.value ELSE r.value]

\* Math.round(x) for x = x2 / 2: the nearest integer, halves towards +Infinity
MathRound(x2) == (x2 + 1) \div 2

\* element.getBoundingClientRect().top, doubled, while the container is scrolled
\* to scrollTop; the container's own rect top is taken as 0
RectTop2(element, scrollTop) == 0 + element.top2 - 2 * scrollTop

\* this.mappings.sort((a, b) => a.line - b.line): Array.prototype.sort is
\* stable, so this is insertion of each entry behind the entries of its key
RECURSIVE SortByLine(_)
SortByLine(seq) ==
    IF Len(seq) <= 1 THEN seq
    ELSE LET init == SortByLine(SubSeq(seq, 1, Len(seq) - 1))
             x == seq[Len(seq)]
             k == Cardinality({i \in 1..Len(init) : init[i].line <= x.line})
         IN SubSeq(init, 1, k) \o <<x>> \o SubSeq(init, k + 1, Len(init))

BlockHeight == 2    \* pixels from one [data-line] element of a preview to the next

(***************************************************************************)
(* The preview's html. It is String(result) of the worker (part_001:59-67): *)
(* rehype-stringify's text of the tree that remark-parse and remark-rehype  *)
(* make of a CommonMark document, after rehypeAddLineNumbers and            *)
(* rehype-sanitize. Such a text is made of character data without "<", of   *)
(* start tags <name attribute="value" ...> with lower-case names and        *)
(* double-quoted values, and of end tags </name>, properly nested; embedded *)
(* HTML, comments and scripts are not passed on. The browser's parser makes *)
(* of it the tree it was written from: one element for every start tag, in  *)
(* the order of the text.                                                   *)
(***************************************************************************)
\* the elements of a CommonMark document: the blocks, those inside a
\* paragraph, and the ones without content and end tag
Flow == {"p", "h1", "h2", "h3", "h4", "h5", "h6", "blockquote", "ul", "ol", "pre", "hr"}
Phrasing == {"em", "strong", "code", "a", "img", "br"}
Void == {"img", "br", "hr"}
\* the elements that the element parent holds ("" is the document)
Children(parent) ==
    IF parent \in {"", "blockquote"} THEN Flow
    ELSE IF parent \in {"ul", "ol"} THEN {"li"}
    ELSE IF parent = "li" THEN Flow \cup Phrasing
    ELSE IF parent = "pre" THEN {"code"}
    ELSE IF parent = "code" THEN {}
    ELSE Phrasing

AttrName == "data-line"
NameChars == "abcdefghijklmnopqrstuvwxyz0123456789-"
\* s is not empty and made of the characters chars
MadeOf(s, chars) ==
    /\ Len(s) > 0
    /\ \A k \in 1..Len(s) : \E m \in 1..Len(chars) : SubSeq(chars, m, m) = SubSeq(s, k, k)
\* the text of a line number (node.position.start.line, from 1 on)
IsLineNumber(s) == MadeOf(s, "0123456789") /\ SubSeq(s, 1, 1) # "0"
\* what a start tag that ends contributes: the element, if it has the attribute
Emit(found) == IF found = NullRef THEN <<>> ELSE <<CodeUnits(found.value)>>
\* a text that the worker cannot have written has no reading here
Unread == CHOOSE lines \in {} : TRUE

\* the first position from i on whose character is in (within = TRUE) or is
\* not in (within = FALSE) the string chars; Len(html) + 1 when there is none
FirstAt(html, i, chars, within) ==
    LET hit(j) == (\E k \in 1..Len(chars) : SubSeq(chars, k, k) = SubSeq(html, j, j))
                  = within
        S == {j \in i..Len(html) : hit(j)}
    IN IF S = {} THEN Len(html) + 1 ELSE CHOOSE j \in S : \A k \in S : j <= k

\* The parse of the worker's text as far as the [data-line] elements go:
\* Content reads html from position i inside the open elements open
\* (innermost first), Attributes reads the start tag of the element name from
\* position i, behind its name or an attribute, found being its data-line
\* attribute so far. The result is the data-line values of the elements, in
\* document order.
RECURSIVE Content(_, _, _)
RECURSIVE Attributes(_, _, _, _, _)
Content(html, i, open) ==
    LET j == FirstAt(html, i, "<", TRUE)
        end == j < Len(html) /\ SubSeq(html, j + 1, j + 1) = "/"
        e == FirstAt(html, j + 1, " >", TRUE)
        name == SubSeq(html, IF end THEN j + 2 ELSE j + 1, e - 1)
        parent == IF open = <<>> THEN "" ELSE Head(open)
    IN IF j > Len(html) THEN (IF open = <<>> THEN <<>> ELSE Unread)
       ELSE IF e > Len(html) THEN Unread
       ELSE IF end
            THEN IF open # <<>> /\ name = Head(open) /\ SubSeq(html, e, e) = ">"
                 THEN Content(html, e + 1, Tail(open))
                 ELSE Unread
       ELSE IF /\ name \in Children(parent)
               /\ name = "a" => \A k \in DOMAIN open : open[k] # "a"
            THEN Attributes(html, e, name, open, NullRef)
       ELSE Unread
Attributes(html, i, name, open, found) ==
    LET e == FirstAt(html, i + 1, " =>", TRUE)
        attribute == SubSeq(html, i + 1, e - 1)
        q == FirstAt(html, e + 2, "\"", TRUE)
        value == SubSeq(html, e + 2, q - 1)
    IN IF SubSeq(html, i, i) = ">"
       THEN Emit(found) \o Content(html, i + 1, IF name \in Void THEN open
                                                ELSE <<name>> \o open)
       ELSE IF SubSeq(html, i, i) # " " \/ e > Len(html) \/ ~MadeOf(attribute, NameChars)
            THEN Unread
       ELSE IF SubSeq(html, e, e) # "="
            THEN IF attribute # AttrName THEN Attributes(html, e, name, open, found)
                 ELSE Unread
       ELSE IF SubSeq(html, e + 1, e + 1) # "\"" \/ q > Len(html) THEN Unread
       ELSE IF attribute # AttrName THEN Attributes(html, q + 1, name, open, found)
       ELSE IF found = NullRef /\ IsLineNumber(value)
            THEN Attributes(html, q + 1, name, open, [value |-> value])
       ELSE Unread

\* the data-line values of the elements of innerHTML = html that
\* querySelectorAll('[data-line]') matches, in document order
DataLines(html) == Content(html, 1, <<>>)

\* the [data-line] elements of the preview container once React has set its
\* innerHTML to html (part_003:192-203): every such element starts BlockHeight
\* pixels below the one before it in document order
Layout(html) ==
    LET attrs == DataLines(html)
    IN [i \in 1..Len(attrs) |-> Element(attrs[i], 2 * BlockHeight * (i - 1))]

\* The height of the preview container (its 600px of part_003:196) in the
\* pixels of the model, whose blocks are BlockHeight tall
clientHeight == 1
\* container.scrollHeight: the content ends where its lowest element ends, and
\* the height is never less than that of the container itself
ScrollHeight(dom) ==
    IF dom = <<>> THEN clientHeight
    ELSE LET bottoms == {(dom[i].top2 + 1) \div 2 + BlockHeight : i \in 1..Len(dom)}
         IN Max(clientHeight, CHOOSE b \in bottoms : \A c \in bottoms : c <= b)
\* the greatest scrollTop the container can have over dom
MaxScrollTop(dom) == Max(0, ScrollHeight(dom) - clientHeight)

\* the elements whose data-line passes `if (lineAttr)` and `if (!isNaN(line))`
Annotated(element) == element.attr # <<>> /\ ~parseInt(element.attr).isNaN

\* a rebuild that pushes onto the previous table instead of replacing it
buildMappingTableAppend(dom, scrollTop) ==
    LET elements == SelectSeq(dom, Annotated) IN
    SortByLine(mappings \o [i \in 1..Len(elements) |->
        [line |-> parseInt(elements[i].attr).value,
         offsetTop |-> Max(0, MathRound(RectTop2(elements[i], scrollTop) - 0
                                        + 2 * scrollTop))]])

\* buildMappingTable() once the container is set: the table built of the
\* elements dom of the container while it is scrolled to scrollTop
buildMappingTable(dom, scrollTop) ==
    LET elements == SelectSeq(dom, Annotated) IN
    SortByLine([i \in 1..Len(elements) |->
        [line |-> parseInt(elements[i].attr).value,
         offsetTop |-> Max(0, MathRound(RectTop2(elements[i], scrollTop) - 0
                                        + 2 * scrollTop))]])

\* a search that answers with its left bound
BinarySearchLeft(line, left, right) == left

\* the while loop of findMappingByLine; returns the index `right` (1-based)
\* or the index of the exact match
RECURSIVE BinarySearch(_, _, _)
BinarySearch(line, left, right) ==
    IF left > right THEN right
    ELSE LET mid == (left + right) \div 2 IN
         IF mappings[mid].line = line THEN mid
         ELSE IF mappings[mid].line < line
              THEN BinarySearch(line, mid + 1, right)
              ELSE BinarySearch(line, left, mid - 1)

\* findMappingByLine(line): NullRef or an entry of the table
findMappingByLine(line) ==
    IF Len(mappings) = 0 THEN NullRef
    ELSE IF line <= mappings[1].line THEN mappings[1]
    ELSE IF line >= mappings[Len(mappings)].line THEN mappings[Len(mappings)]
    ELSE mappings[BinarySearch(line, 1, Len(mappings))]

\* an interpolation that answers with the line of the next entry
InterpolateNext(current, next, scrollTop) == next.line

\* an interpolation that drops the fraction instead of rounding
InterpolateFloor(current, next, scrollTop) ==
    current.line + (((scrollTop - current.offsetTop) * (next.line - current.line))
                        \div (next.offsetTop - current.offsetTop))

(* The numbers of the interpolation are IEEE 754 doubles. A double is kept  *)
(* as [int, frac]: the integer int plus the binary fraction 0.frac, frac a *)
(* sequence of bits without trailing zeros; the value is int + 0.frac for  *)
(* negative numbers too (int is the floor).                                *)
Precision == 53     \* significant bits of a double

Dyadic(int, frac) == [int |-> int, frac |-> frac]

\* the bits without their trailing zeros
Trimmed(bits) ==
    LET ones == {i \in 1..Len(bits) : bits[i] = 1}
    IN IF ones = {} THEN <<>>
       ELSE SubSeq(bits, 1, CHOOSE i \in ones : \A j \in ones : j <= i)

\* floor(log2(n)) for n >= 1
Log2(n) == CHOOSE e \in 0..30 : 2^e <= n /\ (e = 30 \/ n < 2^(e + 1))

\* 0.bits + 2^-Len(bits): carry is 1 when the sum is 1
Increment(bits) ==
    LET zeros == {i \in 1..Len(bits) : bits[i] = 0}
        last == CHOOSE i \in zeros : \A j \in zeros : j <= i
    IN IF zeros = {} THEN [carry |-> 1, bits |-> [i \in 1..Len(bits) |-> 0]]
       ELSE [carry |-> 0,
             bits |-> [i \in 1..Len(bits) |->
                          IF i < last THEN bits[i] ELSE IF i = last THEN 1 ELSE 0]]

\* the bits of the byte b, and the j-th byte of a fraction
ByteBits(b) == [i \in 1..8 |-> (b \div 2^(8 - i)) % 2]
Byte(bits, j) ==
    LET bit(i) == IF 8 * (j - 1) + i <= Len(bits) THEN bits[8 * (j - 1) + i] ELSE 0
    IN 128 * bit(1) + 64 * bit(2) + 32 * bit(3) + 16 * bit(4)
       + 8 * bit(5) + 4 * bit(6) + 2 * bit(7) + bit(8)

\* -x
Negated(x) ==
    IF x.frac = <<>> THEN Dyadic(0 - x.int, <<>>)
    ELSE LET n == Len(x.frac)    \* the last bit of a trimmed fraction is 1
         IN Dyadic(0 - x.int - 1,
                   [i \in 1..n |-> IF i = n THEN 1 ELSE 1 - x.frac[i]])

\* the number of fraction bits a double of the magnitude of x has
FractionBits(x) ==
    LET m == IF x.int < 0 THEN Negated(x) ELSE x
    IN IF m.int >= 1 THEN Precision - 1 - Log2(m.int)
       ELSE IF m.frac = <<>> THEN 0
       ELSE (CHOOSE j \in 1..Len(m.frac) :
                 m.frac[j] = 1 /\ \A i \in 1..(j - 1) : m.frac[i] = 0)
            + Precision - 1

\* the double nearest to int + 0.frac (frac need not be trimmed), ties to the
\* even one. sticky tells that the number is more than int + 0.frac by less
\* than one unit of the last bit of frac.
RoundToDouble(x, sticky) ==
    LET k == FractionBits(Dyadic(x.int, Trimmed(x.frac)))
        n == Len(x.frac)
        kept == SubSeq(x.frac, 1, k)
        odd == IF k = 0 THEN x.int % 2 = 1 ELSE kept[k] = 1
        more == sticky \/ \E i \in (k + 2)..n : x.frac[i] = 1
        up == Increment(kept)
    IN IF n <= k THEN Dyadic(x.int, Trimmed(x.frac))
       ELSE IF x.frac[k + 1] = 1 /\ (more \/ odd)
            THEN Dyadic(x.int + up.carry, Trimmed(up.bits))
       ELSE Dyadic(x.int, Trimmed(kept))

\* the first n bytes of the binary expansion of r / q, 0 <= r < q < 2^23, and
\* what the division leaves
RECURSIVE Expand(_, _, _)
Expand(r, q, n) ==
    IF n = 0 THEN [bits |-> <<>>, rem |-> r]
    ELSE LET rest == Expand((256 * r) % q, q, n - 1)
         IN [bits |-> ByteBits((256 * r) \div q) \o rest.bits, rem |-> rest.rem]

\* the double p / q of the integers p >= 0 and 0 < q < 2^23: 11 bytes of the
\* expansion hold the 23 zeros a quotient can start with and 65 bits more
Divide(p, q) ==
    LET e == Expand(p % q, q, 11)
    IN RoundToDouble(Dyadic(p \div q, e.bits), e.rem # 0)

\* 0.(bits from byte j on) times the integer d, 0 <= d < 2^23, exactly
RECURSIVE TimesFraction(_, _, _)
TimesFraction(bits, j, d) ==
    IF 8 * (j - 1) >= Len(bits) THEN Dyadic(0, <<>>)
    ELSE LET rest == TimesFraction(bits, j + 1, d)
             t == Byte(bits, j) * d + rest.int
         IN Dyadic(t \div 256, ByteBits(t % 256) \o rest.frac)

\* the double x * d of the double x >= 0 and the integer d
Multiply(x, d) ==
    LET f == TimesFraction(x.frac, 1, IF d < 0 THEN 0 - d ELSE d)
        m == RoundToDouble(Dyadic(x.int * (IF d < 0 THEN 0 - d ELSE d) + f.int,
                                  f.frac), FALSE)
    IN IF d < 0 THEN Negated(m) ELSE m

\* the double n + x of the integer n and the double x
Add(n, x) == RoundToDouble(Dyadic(n + x.int, x.frac), FALSE)

\* Math.round(x) of a double: floor(x + 0.5)
MathRoundDouble(x) == IF x.frac # <<>> /\ x.frac[1] = 1 THEN x.int + 1 ELSE x.int

\* const ratio = (scrollTop - current.offsetTop) / (next.offsetTop - current.offsetTop)
\* const interpolatedLine = current.line + ratio * (next.line - current.line)
\* return Math.round(interpolatedLine)
\* in the arithmetic of doubles: a half that the exact quotient would give can
\* come out just below the half and round down
Interpolate(current, next, scrollTop) ==
    LET ratio == Divide(scrollTop - current.offsetTop,
                        next.offsetTop - current.offsetTop)
        interpolatedLine == Add(current.line, Multiply(ratio, next.line - current.line))
    IN MathRoundDouble(interpolatedLine)

\* findLineByScrollTop(scrollTop)
findLineByScrollTop(scrollTop) ==
    IF Len(mappings) = 0 THEN 1
    ELSE IF scrollTop <= mappings[1].offsetTop THEN mappings[1].line
    ELSE IF scrollTop >= mappings[Len(mappings)].offsetTop
         THEN mappings[Len(mappings)].line
    ELSE LET hits == {i \in 1..(Len(mappings) - 1) :
                        /\ scrollTop >= mappings[i].offsetTop
                        /\ scrollTop < mappings[i + 1].offsetTop}
         IN IF hits = {} THEN mappings[1].line
            ELSE LET i == CHOOSE h \in hits : \A g \in hits : h <= g
                 IN Interpolate(mappings[i], mappings[i + 1], scrollTop)

(***************************************************************************)
(* ScrollSyncLock                                                          *)
(***************************************************************************)
Views == {"editor", "preview"}

\* delays in milliseconds: the initial values of the fields lockTimeout and
\* debounceDelay, and the two delays written into the code
lockTimeoutDefault == 300
debounceDelayDefault == 50
syncDuration == 200
releaseDelay == 100
\* every delay is a multiple of the default quiet period, and a timer fires
\* exactly its delay after it was set: moving every event to a multiple of the
\* quiet period keeps the order of events, so time advances in steps of one
\* quiet period, and calls and due timers of the same instant run in any order
Quantum == debounceDelayDefault
\* the values the setters are called with: a timeout as short as the delayed
\* release or the default one; no delay or the default one
LockTimeouts == {releaseDelay, lockTimeoutDefault}
DebounceDelays == {0, debounceDelayDefault}
\* delayed releases pending at once: with no quiet period any number of runs,
\* each with a release timer of its own, fits into one instant
MaxReleases == 3
\* the measured ages stop counting one step past the longest delay
AgeCap == lockTimeoutDefault + Quantum

\* the callbacks App passes to debounce: the editor's closes over visibleLine
Callbacks == [kind : {"editor"}, line : Lines] \cup {[kind |-> "preview", line |-> 0]}

\* the callbacks App passes for source
CallbacksOf(source) == {cb \in Callbacks : cb.kind = source}

\* the state the lock's methods and the callbacks read and write
ScrollState ==
    [currentSource |-> currentSource, lockTimeout |-> lockTimeout,
     debounceDelay |-> debounceDelay, lockTimer |-> lockTimer,
     debounceTimer |-> debounceTimer, syncingTo |-> syncingTo,
     syncTimer |-> syncTimer, releaseTimers |-> releaseTimers,
     previewScrollTop |-> previewScrollTop, editorLine |-> editorLine,
     hintAge |-> hintAge, debounceAge |-> debounceAge, burst |-> burst,
     \* what the step did: the view the program asked to scroll and, for the
     \* preview, the top its smooth scroll is to end at (-1: none); the
     \* callback run, the burst that ended in it, and the source whose pending
     \* debounce timer was cleared
     scrolled |-> NULL, scrollTo |-> -1, ran |-> NullRef, burstRun |-> "none",
     cancelled |-> NULL]

SetScrollState(S) ==
    /\ currentSource' = S.currentSource
    /\ lockTimeout' = S.lockTimeout
    /\ debounceDelay' = S.debounceDelay
    /\ lockTimer' = S.lockTimer
    /\ debounceTimer' = S.debounceTimer
    /\ syncingTo' = S.syncingTo
    /\ syncTimer' = S.syncTimer
    /\ releaseTimers' = S.releaseTimers
    /\ previewScrollTop' = S.previewScrollTop
    /\ editorLine' = S.editorLine
    /\ hintAge' = S.hintAge
    /\ debounceAge' = S.debounceAge
    /\ burst' = S.burst

\* an acquireLock that forgets the auto-release timer
acquireLockNoTimer(S, source) ==
    [S EXCEPT !.currentSource = source, !.lockTimer = NullRef]

\* private acquireLock(source): clearTimeout of the old timer, then a new one
acquireLock(S, source) ==
    [S EXCEPT !.currentSource = source,
              !.lockTimer = [source |-> source, left |-> S.lockTimeout, live |-> TRUE]]

\* a tryAcquire that does not look at the current holder
tryAcquireAlways(S, source) ==
    [ok |-> TRUE, S |-> acquireLock(S, source)]

\* tryAcquire(source): the returned boolean and the state afterwards
tryAcquire(S, source) ==
    IF S.currentSource = NULL \/ S.currentSource = source
    THEN [ok |-> TRUE, S |-> acquireLock(S, source)]
    ELSE [ok |-> FALSE, S |-> S]

\* a release that leaves the auto-release timer running
releaseKeepTimer(S, source) ==
    IF S.currentSource = source THEN [S EXCEPT !.currentSource = NULL] ELSE S

\* a release that does not check who holds the lock
releaseAny(S, source) ==
    [S EXCEPT !.currentSource = NULL, !.lockTimer = NullRef]

\* release(source)
release(S, source) ==
    IF S.currentSource = source
    THEN [S EXCEPT !.currentSource = NULL, !.lockTimer = NullRef]
    ELSE S

\* forceRelease()
forceRelease(S) ==
    [S EXCEPT !.currentSource = NULL, !.syncingTo = NULL, !.lockTimer = NullRef,
              !.syncTimer = NullRef, !.debounceTimer = NullRef,
              !.hintAge = -1, !.debounceAge = -1, !.burst = "none"]

\* a markSyncingTo that leaves a timer that is already running in place
markSyncingToNoRestart(S, target) ==
    [S EXCEPT !.syncingTo = target,
              !.syncTimer = IF @ # NullRef THEN @ ELSE [left |-> syncDuration],
              !.hintAge = 0]

\* markSyncingTo(target)
markSyncingTo(S, target) ==
    [S EXCEPT !.syncingTo = target, !.syncTimer = [left |-> syncDuration],
              !.hintAge = 0]

\* an isSyncingTo that never finds a hint
isSyncingToNever(S, target) == FALSE

\* an isSyncingTo that tests for the other view
isSyncingToOther(S, target) == S.syncingTo # NULL /\ S.syncingTo # target

\* isSyncingTo(target)
isSyncingTo(S, target) == S.syncingTo = target

\* a debounce that keeps the timer and callback of an earlier call
debounceKeepFirst(S, source, callback) ==
    IF S.debounceTimer # NullRef THEN S
    ELSE [S EXCEPT !.debounceTimer = [source |-> source, cb |-> callback,
                                      left |-> S.debounceDelay,
                                      delay |-> S.debounceDelay],
                   !.debounceAge = 0, !.burst = "single"]

\* a debounce with a timer of its own for each source: it leaves a timer of
\* the other source pending
debounceOwnSlot(S, source, callback) ==
    IF S.debounceTimer # NullRef /\ S.debounceTimer.source # source THEN S
    ELSE [S EXCEPT !.debounceTimer = [source |-> source, cb |-> callback,
                                      left |-> S.debounceDelay,
                                      delay |-> S.debounceDelay],
                   !.debounceAge = 0,
                   !.burst = IF S.debounceTimer # NullRef THEN "restarted" ELSE "single",
                   !.cancelled = IF S.debounceTimer # NullRef THEN S.debounceTimer.source
                                 ELSE NULL]

\* debounce(source, callback): the synchronous part
debounce(S, source, callback) ==
    [S EXCEPT !.debounceTimer = [source |-> source, cb |-> callback,
                                 left |-> S.debounceDelay, delay |-> S.debounceDelay],
              !.debounceAge = 0,
              !.burst = IF S.debounceTimer # NullRef THEN "restarted" ELSE "single",
              !.cancelled = IF S.debounceTimer # NullRef THEN S.debounceTimer.source
                            ELSE NULL]

\* setLockTimeout(timeout)
setLockTimeout(S, timeout) == [S EXCEPT !.lockTimeout = timeout]

\* setDebounceDelay(delay)
setDebounceDelay(S, delay) == [S EXCEPT !.debounceDelay = delay]

(***************************************************************************)
(* App: the callbacks handed to debounce                                   *)
(***************************************************************************)
\* the arrow function of handleEditorScroll (part_003:88-101). scrollTo with
\* behavior 'smooth' starts an animation towards the top asked for, clamped to
\* the scroll range of the container: scrollTop is as it was when the callback
\* returns, and moves in later frames (PreviewScrolled)
editorCallback(S, visibleLine) ==
    LET S1 == markSyncingTo(S, "preview")
        mapping == findMappingByLine(visibleLine)
    IN IF mapping # NullRef /\ mounted
       THEN [S1 EXCEPT !.scrolled = "preview",
                       !.scrollTo = Min(Max(0, mapping.offsetTop), MaxScrollTop(previewDom))]
       ELSE S1

\* the arrow function of handlePreviewScroll (part_003:121-131)
previewCallback(S) ==
    LET S1 == markSyncingTo(S, "editor")
    IN IF mounted
       THEN [S1 EXCEPT !.editorLine = findLineByScrollTop(S.previewScrollTop),
                       !.scrolled = "editor"]
       ELSE S1

RunCallback(S, cb) ==
    [(IF cb.kind = "editor" THEN editorCallback(S, cb.line) ELSE previewCallback(S))
        EXCEPT !.ran = cb]

\* a timer callback that runs the action whether or not the lock was acquired
debounceFireNoLock(S) ==
    LET t == S.debounceTimer
        r == tryAcquire(S, t.source)
    IN [RunCallback(r.S, t.cb) EXCEPT
           !.releaseTimers = Append(@, [source |-> t.source, left |-> releaseDelay]),
           !.debounceTimer = NullRef, !.debounceAge = -1,
           !.burst = "none", !.burstRun = S.burst]

\* the timer callback of debounce (scrollSyncLock.ts:162-171)
debounceFire(S) ==
    LET t == S.debounceTimer
        r == tryAcquire(S, t.source)
    IN IF r.ok
       THEN [RunCallback(r.S, t.cb) EXCEPT
                !.releaseTimers = Append(@, [source |-> t.source, left |-> releaseDelay]),
                !.debounceTimer = NullRef, !.debounceAge = -1,
                !.burst = "none", !.burstRun = S.burst]
       ELSE [S EXCEPT !.debounceTimer = NullRef, !.debounceAge = -1,
                      !.burst = "none", !.burstRun = S.burst]

\* the timer callback of acquireLock (scrollSyncLock.ts:60-62)
lockTimerFire(S) ==
    release([S EXCEPT !.lockTimer.live = FALSE], S.lockTimer.source)

\* the timer callback of markSyncingTo (scrollSyncLock.ts:118-121)
syncTimerFire(S) ==
    [S EXCEPT !.syncingTo = NULL, !.syncTimer = NullRef, !.hintAge = -1]

\* the record of a step: the operation, its source argument, its outcome, the
\* callback it was passed (arg), what it did (scrolled, scrollTo, ran, burst,
\* cancelled) and, for the timer callback of debounce, the hint it found
ScrollEv(op, source, ok, arg, S) ==
    [op |-> op, source |-> source, ok |-> ok, arg |-> arg,
     scrolled |-> S.scrolled, scrollTo |-> S.scrollTo, ran |-> S.ran, burst |-> S.burstRun,
     cancelled |-> S.cancelled,
     hint |-> IF op = "debounceTimer" THEN syncingTo ELSE NULL]

Frame == UNCHANGED <<dispVars, mappings, previewDom, mounted, quiet, viewVars>>

(***************************************************************************)
(* Timers: every pending timer counts down; one that is due runs before    *)
(* time advances again                                                     *)
(***************************************************************************)
LockTimerDue == lockTimer # NullRef /\ lockTimer.live /\ lockTimer.left = 0
SyncTimerDue == syncTimer # NullRef /\ syncTimer.left = 0
DebounceTimerDue == debounceTimer # NullRef /\ debounceTimer.left = 0
\* timers of one delay are due in the order they were set: the oldest first
ReleaseTimerDue == releaseTimers # <<>> /\ Head(releaseTimers).left = 0

AnyTimerDue ==
    \/ rebuildTimers > 0
    \/ LockTimerDue
    \/ SyncTimerDue
    \/ DebounceTimerDue
    \/ ReleaseTimerDue

AnyTimerPending ==
    \/ lockTimer # NullRef /\ lockTimer.live
    \/ syncTimer # NullRef
    \/ debounceTimer # NullRef
    \/ releaseTimers # <<>>

Tick ==
    /\ ~AnyTimerDue
    /\ AnyTimerPending
    /\ lockTimer' = IF lockTimer # NullRef /\ lockTimer.live
                    THEN [lockTimer EXCEPT !.left = @ - Quantum] ELSE lockTimer
    /\ syncTimer' = IF syncTimer # NullRef
                    THEN [syncTimer EXCEPT !.left = @ - Quantum] ELSE syncTimer
    /\ debounceTimer' = IF debounceTimer # NullRef
                        THEN [debounceTimer EXCEPT !.left = @ - Quantum] ELSE debounceTimer
    /\ releaseTimers' = [i \in DOMAIN releaseTimers |->
                            [releaseTimers[i] EXCEPT !.left = @ - Quantum]]
    /\ hintAge' = IF hintAge >= 0 THEN Min(hintAge + Quantum, AgeCap) ELSE hintAge
    /\ debounceAge' = IF debounceAge >= 0 THEN Min(debounceAge + Quantum, AgeCap)
                      ELSE debounceAge
    /\ burst' = burst
    /\ ev' = ScrollEv("tick", NULL, TRUE, NullRef, ScrollState)
    /\ UNCHANGED <<currentSource, lockTimeout, debounceDelay, syncingTo,
                   previewScrollTop, editorLine>>
    /\ Frame

LockTimerFire ==
    /\ LockTimerDue
    /\ SetScrollState(lockTimerFire(ScrollState))
    /\ ev' = ScrollEv("lockTimer", lockTimer.source, TRUE, NullRef, ScrollState)
    /\ Frame

SyncTimerFire ==
    /\ SyncTimerDue
    /\ SetScrollState(syncTimerFire(ScrollState))
    /\ ev' = ScrollEv("syncTimer", NULL, TRUE, NullRef, ScrollState)
    /\ Frame

DebounceTimerFire ==
    /\ DebounceTimerDue
    /\ LET S == debounceFire(ScrollState) IN
       /\ SetScrollState(S)
       /\ ev' = ScrollEv("debounceTimer", debounceTimer.source,
                         tryAcquire(ScrollState, debounceTimer.source).ok, NullRef, S)
    /\ Frame

ReleaseTimerFire ==
    /\ ReleaseTimerDue
    /\ SetScrollState(release([ScrollState EXCEPT !.releaseTimers = Tail(@)],
                              Head(releaseTimers).source))
    /\ ev' = ScrollEv("releaseTimer", Head(releaseTimers).source, TRUE, NullRef,
                      ScrollState)
    /\ Frame

TimeNext ==
    \/ Tick
    \/ LockTimerFire
    \/ SyncTimerFire
    \/ DebounceTimerFire
    \/ ReleaseTimerFire

(***************************************************************************)
(* ScrollSyncLock: calls of its public methods                             *)
(***************************************************************************)
TryAcquire(source) ==
    /\ ~quiet
    /\ LET r == tryAcquire(ScrollState, source) IN
       /\ SetScrollState(r.S)
       /\ ev' = ScrollEv("tryAcquire", source, r.ok, NullRef, r.S)
    /\ Frame

Release(source) ==
    /\ ~quiet
    /\ SetScrollState(release(ScrollState, source))
    /\ ev' = ScrollEv("release", source, TRUE, NullRef, ScrollState)
    /\ Frame

ForceRelease ==
    /\ ~quiet
    /\ SetScrollState(forceRelease(ScrollState))
    /\ ev' = ScrollEv("forceRelease", NULL, TRUE, NullRef, ScrollState)
    /\ Frame

MarkSyncingTo(target) ==
    /\ ~quiet
    /\ SetScrollState(markSyncingTo(ScrollState, target))
    /\ ev' = ScrollEv("markSyncingTo", target, TRUE, NullRef, ScrollState)
    /\ Frame

Debounce(source, callback) ==
    /\ ~quiet
    /\ Len(releaseTimers) < MaxReleases
    /\ LET S == debounce(ScrollState, source, callback) IN
       /\ SetScrollState(S)
       /\ ev' = ScrollEv("debounce", source, TRUE, callback, S)
    /\ Frame

SetLockTimeout(timeout) ==
    /\ ~quiet
    /\ timeout # lockTimeout
    /\ SetScrollState(setLockTimeout(ScrollState, timeout))
    /\ ev' = ScrollEv("setLockTimeout", NULL, TRUE, NullRef, ScrollState)
    /\ Frame

SetDebounceDelay(delay) ==
    /\ ~quiet
    /\ delay # debounceDelay
    /\ SetScrollState(setDebounceDelay(ScrollState, delay))
    /\ ev' = ScrollEv("setDebounceDelay", NULL, TRUE, NullRef, ScrollState)
    /\ Frame

\* the environment stops calling; only timers run from here on
GoQuiet ==
    /\ ~quiet
    /\ quiet' = TRUE
    /\ ev' = ScrollEv("quiet", NULL, TRUE, NullRef, ScrollState)
    /\ UNCHANGED <<dispVars, lockVars, ageVars, mappings, previewDom, previewScrollTop,
                   editorLine, mounted, viewVars>>

(***************************************************************************)
(* App: scroll handlers and unmount                                        *)
(***************************************************************************)
\* handleEditorScroll(visibleLine) (part_003:77-102)
handleEditorScroll(visibleLine) ==
    /\ LET S == ScrollState IN
       IF ~mounted \/ isSyncingTo(S, "editor")
       THEN /\ SetScrollState(S)
            /\ ev' = ScrollEv("handleEditorScroll", "editor", FALSE, NullRef, S)
       ELSE LET S1 == debounce(S, "editor", [kind |-> "editor", line |-> visibleLine]) IN
            /\ SetScrollState(S1)
            /\ ev' = ScrollEv("handleEditorScroll", "editor", TRUE,
                              [kind |-> "editor", line |-> visibleLine], S1)
    /\ Frame

\* handlePreviewScroll() (part_003:105-132)
handlePreviewScroll ==
    /\ LET S == ScrollState IN
       IF ~mounted \/ isSyncingTo(S, "preview")
       THEN /\ SetScrollState(S)
            /\ ev' = ScrollEv("handlePreviewScroll", "preview", FALSE, NullRef, S)
       ELSE LET S1 == debounce(S, "preview", [kind |-> "preview", line |-> 0]) IN
            /\ SetScrollState(S1)
            /\ ev' = ScrollEv("handlePreviewScroll", "preview", TRUE,
                              [kind |-> "preview", line |-> 0], S1)
    /\ Frame

\* the preview container is scrolled to top (by the user or by an animation
\* frame of a smooth scroll), within its scroll range; its scroll event is
\* handlePreviewScroll
PreviewScrolled(top) ==
    /\ mounted
    /\ top # previewScrollTop
    /\ top <= MaxScrollTop(previewDom)
    /\ previewScrollTop' = top
    /\ ev' = ScrollEv("previewScrolled", "preview", TRUE, NullRef, ScrollState)
    /\ UNCHANGED <<dispVars, lockVars, ageVars, mappings, previewDom, editorLine, mounted,
                   quiet, viewVars>>

\* the timers the effect of part_003:60-74 sets when it runs, pending since the
\* commit that changed htmlPreview: one, unless the html is empty
EffectTimers == IF effectPending /\ htmlPreview # "" /\ mounted THEN 1 ELSE 0

\* App is unmounted: React runs the effects that are pending, then the cleanup
\* of the first effect of App (part_003:25-35); updates that were not
\* rendered are dropped
Unmount ==
    /\ mounted
    /\ mounted' = FALSE
    /\ terminateEffect
    /\ mappings' = <<>>
    /\ builtFrom' = NullRef
    /\ queued' = <<>>
    /\ effectPending' = FALSE
    /\ rebuildTimers' = rebuildTimers + EffectTimers
    /\ SetScrollState(forceRelease(ScrollState))
    /\ ev' = ScrollEv("unmount", NULL, TRUE, NullRef, ScrollState)
    /\ UNCHANGED <<previewDom, quiet, previewContainer, markdownContent, htmlPreview,
                   isLoading, awaiting>>

(***************************************************************************)
(* ScrollSyncMapper: calls of its methods                                  *)
(***************************************************************************)
MapperFrame ==
    UNCHANGED <<dispVars, lockVars, ageVars, previewDom, previewScrollTop, editorLine,
                mounted, quiet, flowVars>>

\* setPreviewContainer(container)
SetPreviewContainer ==
    /\ previewContainer' = "div"
    /\ ev' = [op |-> "setPreviewContainer"]
    /\ UNCHANGED <<mappings, builtFrom>>
    /\ MapperFrame

\* buildMappingTable(): it returns at once while no container is set
buildMappingTableEffect ==
    IF previewContainer' = NULL
    THEN UNCHANGED <<mappings, builtFrom>>
    ELSE /\ mappings' = buildMappingTable(previewDom', previewScrollTop')
         /\ builtFrom' = [html |-> htmlPreview', dom |-> previewDom']

BuildMappingTable ==
    /\ UNCHANGED previewContainer
    /\ MapperFrame
    /\ buildMappingTableEffect
    /\ ev' = [op |-> "buildMappingTable", ok |-> previewContainer # NULL,
              again |-> builtFrom # NullRef]

\* clear()
Clear ==
    /\ mappings' = <<>>
    /\ builtFrom' = NullRef
    /\ ev' = [op |-> "clear"]
    /\ UNCHANGED previewContainer
    /\ MapperFrame

\* a call of findMappingByLine(line) and what it returns
FindMappingByLine(line) ==
    /\ ev' = [op |-> "findMappingByLine", line |-> line, result |-> findMappingByLine(line)]
    /\ UNCHANGED <<mappings, builtFrom, previewContainer>>
    /\ MapperFrame

\* a call of findLineByScrollTop(scrollTop) and what it returns
FindLineByScrollTop(scrollTop) ==
    /\ ev' = [op |-> "findLineByScrollTop", scrollTop |-> scrollTop,
              result |-> findLineByScrollTop(scrollTop)]
    /\ UNCHANGED <<mappings, builtFrom, previewContainer>>
    /\ MapperFrame

(***************************************************************************)
(* App: the preview request and the rebuild of the mapping table           *)
(***************************************************************************)
PreviewFrame ==
    UNCHANGED <<lockVars, ageVars, editorLine, mounted, quiet>>

\* handleContentChange(content) (part_003:38-40), called by the editor when its
\* text has changed: setMarkdownContent makes React render App before the
\* event is over, and React runs the effects that are pending before it
\* renders; updates queued by a worker response wait for their own render
handleContentChange(content) ==
    /\ mounted
    /\ content # markdownContent
    /\ markdownContent' = content
    /\ effectPending' = FALSE
    /\ rebuildTimers' = rebuildTimers + EffectTimers
    /\ ev' = [op |-> "handleContentChange"]
    /\ UNCHANGED <<dispVars, mappings, previewDom, previewScrollTop, previewContainer,
                   builtFrom, htmlPreview, isLoading, awaiting, queued>>
    /\ PreviewFrame

\* a preview button that can always be clicked
PreviewButtonAlways == TRUE

\* the preview button, <button onClick={handlePreview} disabled={isLoading}>
\* (part_003:159-161)
PreviewButtonEnabled == ~isLoading

\* handlePreview() up to its await (part_003:42-50); the button that calls it
\* is disabled while isLoading (part_003:159-161). setIsLoading(true) is
\* rendered before the click is over, and React runs the effects that are
\* pending before it renders.
handlePreview ==
    /\ mounted
    /\ PreviewButtonEnabled
    /\ Len(promises) < MaxPreview
    /\ IF markdownContent = ""
       THEN /\ UNCHANGED <<dispVars, isLoading, awaiting, effectPending, rebuildTimers>>
            /\ ev' = [op |-> "handlePreview", id |-> 0]
       ELSE /\ parseMarkdownEffect(markdownContent)
            /\ isLoading' = (worker # NULL)
            /\ awaiting' = IF worker # NULL
                           THEN awaiting \cup {[p |-> Len(promises) + 1, shown |-> htmlPreview]}
                           ELSE awaiting
            /\ effectPending' = FALSE
            /\ rebuildTimers' = rebuildTimers + EffectTimers
            /\ ev' = [op |-> "handlePreview", id |-> promises'[Len(promises')].id]
    /\ UNCHANGED <<mappings, previewDom, previewScrollTop, previewContainer, builtFrom,
                   markdownContent, htmlPreview, queued>>
    /\ PreviewFrame

\* the suspended calls in the order in which their promises were made
InOrder(calls) ==
    CHOOSE q \in [1..Cardinality(calls) -> calls] :
        \A i, j \in 1..Cardinality(calls) : i < j => q[i].p < q[j].p

\* a continuation that blanks the preview when its request failed
ResumeBlank ==
    LET settled == InOrder({a \in awaiting : promises'[a.p].state # "pending"})
        update(a) == IF promises'[a.p].state = "resolved"
                     THEN [p |-> a.p, shown |-> a.shown, set |-> TRUE,
                           html |-> promises'[a.p].value]
                     ELSE [p |-> a.p, shown |-> a.shown, set |-> TRUE, html |-> ""]
    IN /\ awaiting' = {a \in awaiting : promises'[a.p].state = "pending"}
       /\ queued' = IF mounted THEN queued \o [i \in 1..Len(settled) |-> update(settled[i])]
                    ELSE queued

\* handlePreview() after its await (part_003:50-56), for the calls whose promise
\* the step has settled: setHtmlPreview(html) when it resolved, and
\* setIsLoading(false) in either case. The continuation runs in the task that
\* settled the promise; the two updates are queued for React's next render.
Resume ==
    LET settled == InOrder({a \in awaiting : promises'[a.p].state # "pending"})
        update(a) == IF promises'[a.p].state = "resolved"
                     THEN [p |-> a.p, shown |-> a.shown, set |-> TRUE,
                           html |-> promises'[a.p].value]
                     ELSE [p |-> a.p, shown |-> a.shown, set |-> FALSE, html |-> ""]
    IN /\ awaiting' = {a \in awaiting : promises'[a.p].state = "pending"}
       /\ queued' = IF mounted THEN queued \o [i \in 1..Len(settled) |-> update(settled[i])]
                    ELSE queued

\* a response reaches the manager, and the request that awaited it goes on
PreviewMessage(data) ==
    /\ OnMessageEffect(data)
    /\ Resume
    /\ ev' = [op |-> "message", data |-> data]
    /\ UNCHANGED <<mappings, previewDom, previewScrollTop, previewContainer, builtFrom,
                   markdownContent, htmlPreview, isLoading, effectPending, rebuildTimers>>
    /\ PreviewFrame

\* the worker's 'error' event, and the requests it rejected go on
PreviewWorkerError ==
    /\ OnErrorEffect
    /\ Resume
    /\ ev' = [op |-> "error"]
    /\ UNCHANGED <<mappings, previewDom, previewScrollTop, previewContainer, builtFrom,
                   markdownContent, htmlPreview, isLoading, effectPending, rebuildTimers>>
    /\ PreviewFrame

\* React commits html as htmlPreview: when it differs from what is shown, the
\* container's innerHTML is replaced (part_003:192-203), the browser keeps
\* scrollTop within the scroll range of the new content, and the effect of
\* part_003:60-74 is left to run
Commit(html) ==
    /\ htmlPreview' = html
    /\ effectPending' = (html # htmlPreview)
    /\ IF html = htmlPreview
       THEN UNCHANGED <<previewDom, previewScrollTop>>
       ELSE /\ previewDom' = Layout(html)
            /\ previewScrollTop' = Min(previewScrollTop, MaxScrollTop(Layout(html)))

\* React renders App with the queued updates, in a task after the one that
\* queued them: the last setHtmlPreview decides the html, setIsLoading(false)
\* enables the button; the effects that were pending run before the render
RenderApp ==
    /\ mounted
    /\ queued # <<>>
    /\ LET sets == {i \in 1..Len(queued) : queued[i].set}
       IN Commit(IF sets = {} THEN htmlPreview
                 ELSE queued[CHOOSE i \in sets : \A j \in sets : j <= i].html)
    /\ isLoading' = FALSE
    /\ rebuildTimers' = rebuildTimers + EffectTimers
    /\ queued' = <<>>
    /\ ev' = [op |-> "render", updates |-> queued]
    /\ UNCHANGED <<dispVars, mappings, previewContainer, builtFrom, markdownContent,
                   awaiting>>
    /\ PreviewFrame

\* the effect of part_003:60-74 runs, in a task after the commit that changed
\* htmlPreview: it sets the timer of the rebuild unless the html is empty
RebuildEffect ==
    /\ effectPending
    /\ effectPending' = FALSE
    /\ rebuildTimers' = rebuildTimers + EffectTimers
    /\ ev' = [op |-> "effect", timer |-> EffectTimers > 0]
    /\ UNCHANGED <<dispVars, mappings, previewDom, previewScrollTop, previewContainer,
                   builtFrom, markdownContent, htmlPreview, isLoading, awaiting, queued>>
    /\ PreviewFrame

\* the setTimeout(..., 0) callback of the rebuild effect (part_003:63-72)
RebuildTimerFire ==
    /\ rebuildTimers > 0
    /\ rebuildTimers' = rebuildTimers - 1
    /\ UNCHANGED <<dispVars, previewDom, previewScrollTop, markdownContent, htmlPreview,
                   isLoading, awaiting, queued, effectPending>>
    /\ PreviewFrame
    /\ IF mounted
       THEN /\ previewContainer' = "div"
            /\ buildMappingTableEffect
       ELSE UNCHANGED <<previewContainer, mappings, builtFrom>>
    /\ ev' = [op |-> "rebuildTimer"]

(***************************************************************************)
(* Initial state and specifications                                        *)
(***************************************************************************)
\* rendered previews the scroll handlers are exercised on: of nothing, of one
\* paragraph, of two paragraphs, and of a quote and the paragraph it holds
AppHtmls ==
    { "",
      Render("a"),
      "<p data-line=\"1\">a</p>\n<p data-line=\"3\">b</p>",
      "<blockquote data-line=\"2\">\n<p data-line=\"2\">a</p>\n</blockquote>" }

\* the surfaces the mapper is built on: fewer than MaxElems elements with every
\* data-line value and every position to the half pixel, or MaxElems elements
\* with plain line numbers at whole pixels; and the surfaces of the tables
\* [{1,0},{5,100},{10,300}], [{1,0},{24,46}] and [{1,0},{2,3},{3,3},{4,6}]
OddAttrs == {<<>>, CodeUnits("x"), <<9, 160>> \o CodeUnits("2x")}
PlainElements == {Element(CodeUnits(ToString(l)), 2 * t) : l \in Lines, t \in Tops}
Elements == {Element(a, t) : a \in {CodeUnits(ToString(l)) : l \in Lines} \cup OddAttrs,
                             t \in 0..(2 * MaxTop)}
ExampleDom == <<Element(CodeUnits("1"), 0), Element(CodeUnits("5"), 200),
                Element(CodeUnits("10"), 600)>>
ExampleTable == <<[line |-> 1, offsetTop |-> 0], [line |-> 5, offsetTop |-> 100],
                  [line |-> 10, offsetTop |-> 300]>>
\* the surface of the table [{1,0},{24,46}]: at offset 13 the exact
\* interpolation is the half 7.5, the one in doubles is just below it
HalfDom == <<Element(CodeUnits("1"), 0), Element(CodeUnits("24"), 92)>>
HalfTable == <<[line |-> 1, offsetTop |-> 0], [line |-> 24, offsetTop |-> 46]>>
\* the surface of the table [{1,0},{2,3},{3,3},{4,6}]: the elements of lines 2
\* and 3 begin at the same height, between the first offset and the last
SharedDom == <<Element(CodeUnits("1"), 0), Element(CodeUnits("2"), 6),
               Element(CodeUnits("3"), 6), Element(CodeUnits("4"), 12)>>
SharedTable == <<[line |-> 1, offsetTop |-> 0], [line |-> 2, offsetTop |-> 3],
                 [line |-> 3, offsetTop |-> 3], [line |-> 4, offsetTop |-> 6]>>
MapperDoms ==
    UNION {[1..n -> Elements] : n \in 0..(MaxElems - 1)}
    \cup [1..MaxElems -> PlainElements]
    \cup {ExampleDom, HalfDom, SharedDom}
\* the arguments the lookups are called with
LookupLines == (0..(MaxLine + 1)) \cup {7}
LookupTops == (0..(MaxTop + 1)) \cup {13, 200}

LockInit ==
    /\ currentSource = NULL
    /\ lockTimeout = lockTimeoutDefault
    /\ debounceDelay = debounceDelayDefault
    /\ lockTimer = NullRef
    /\ debounceTimer = NullRef
    /\ syncingTo = NULL
    /\ syncTimer = NullRef
    /\ releaseTimers = <<>>
    /\ hintAge = -1
    /\ debounceAge = -1
    /\ burst = "none"

\* the state of a freshly mounted App apart from what it shows
FlowInit ==
    /\ markdownContent = ""
    /\ isLoading = FALSE
    /\ awaiting = {}
    /\ queued = <<>>
    /\ effectPending = FALSE
    /\ rebuildTimers = 0
    /\ previewScrollTop = 0
    /\ editorLine = 1
    /\ mounted = TRUE
    /\ quiet = FALSE

\* a mounted App whose mapping table was built from the preview it shows; it
\* shows nothing and has built no table before the first preview
AppInit ==
    /\ FlowInit
    /\ htmlPreview \in AppHtmls
    /\ previewDom = Layout(htmlPreview)
    /\ IF htmlPreview = ""
       THEN /\ previewContainer = NULL
            /\ mappings = <<>>
            /\ builtFrom = NullRef
       ELSE /\ previewContainer = "div"
            /\ mappings = buildMappingTable(previewDom, 0)
            /\ builtFrom = [html |-> htmlPreview, dom |-> previewDom]

\* a new ScrollSyncMapper beside a surface of any content
MapperInit ==
    /\ FlowInit
    /\ htmlPreview = ""
    /\ previewDom \in MapperDoms
    /\ previewContainer = NULL
    /\ mappings = <<>>
    /\ builtFrom = NullRef

DispInit ==
    /\ worker = "Worker"
    /\ messageId = 0
    /\ pendingRequests = <<>>
    /\ promises = <<>>
    /\ toWorker = {}
    /\ fromWorker = {}

DispNext ==
    \/ \E markdown \in Markdowns : parseMarkdown(markdown)
    \/ \E msg \in toWorker : \E resp \in WorkerResponses(msg) : WorkerHandle(msg, resp)
    \/ \E data \in fromWorker : OnMessage(data)
    \/ OnError
    \/ terminate

Init ==
    /\ DispInit
    /\ LockInit
    /\ AppInit
    /\ ev = [op |-> "init"]

\* the dispatcher and the lock are exercised with one rendered preview
OneDomInit ==
    /\ Init
    /\ htmlPreview = Render("a")

\* an App that has not shown a preview yet
NewInit ==
    /\ Init
    /\ htmlPreview = ""

\* a mapper beside a surface, and nothing else in use
SurfaceInit ==
    /\ DispInit
    /\ LockInit
    /\ MapperInit
    /\ ev = [op |-> "init"]

\* the calls of the lock's methods with its delays as they are
LockCalls ==
    \/ \E source \in Views : TryAcquire(source)
    \/ \E source \in Views : Release(source)
    \/ ForceRelease
    \/ \E target \in Views : MarkSyncingTo(target)
    \/ \E source \in Views : \E callback \in CallbacksOf(source) : Debounce(source, callback)

LockNext ==
    \/ LockCalls
    \/ \E timeout \in LockTimeouts : SetLockTimeout(timeout)
    \/ \E delay \in DebounceDelays : SetDebounceDelay(delay)
    \/ TimeNext

\* the calls under the default delays, which may stop at any moment
LockFairNext ==
    \/ LockCalls
    \/ TimeNext
    \/ GoQuiet

\* Under the handlers of App every acquisition comes from a debounce callback,
\* whose delayed release (100 ms) always precedes the expiry timer (300 ms):
\* the expiry timer never becomes due (AppLockTimerNeverDue), so its callback
\* is not among the steps of App.
AppTimeNext ==
    \/ Tick
    \/ SyncTimerFire
    \/ DebounceTimerFire
    \/ ReleaseTimerFire

AppNext ==
    \/ \E visibleLine \in Lines : handleEditorScroll(visibleLine)
    \/ handlePreviewScroll
    \/ \E top \in Tops : PreviewScrolled(top)
    \/ Unmount
    \/ AppTimeNext

AppLockTimerNeverDue == ~LockTimerDue

\* the preview requests of App for the texts typed into the editor, their
\* rendering and the rebuild of the table
PreviewFlow(texts) ==
    \/ \E content \in texts : handleContentChange(content)
    \/ handlePreview
    \/ \E msg \in toWorker : \E resp \in WorkerResponses(msg) : WorkerHandle(msg, resp)
    \/ \E data \in fromWorker : PreviewMessage(data)
    \/ PreviewWorkerError
    \/ RenderApp
    \/ RebuildEffect
    \/ RebuildTimerFire

\* the preview requests of an App whose preview is scrolled and which can be
\* unmounted at any moment
PreviewNext ==
    \/ PreviewFlow(Markdowns \cup {""})
    \/ \E top \in Tops : PreviewScrolled(top)
    \/ Unmount

\* the preview requests, with the scroll sync of both views beside them
PreviewSyncNext ==
    \/ PreviewFlow({"a", Blank})
    \/ handleEditorScroll(MaxLine)
    \/ handlePreviewScroll
    \/ AppTimeNext

MapperNext ==
    \/ SetPreviewContainer
    \/ BuildMappingTable
    \/ Clear
    \/ \E line \in LookupLines : FindMappingByLine(line)
    \/ \E scrollTop \in LookupTops : FindLineByScrollTop(scrollTop)
    \/ \E top \in {0, MaxTop} : PreviewScrolled(top)

\* the dispatcher and its worker
DispSpec == OneDomInit /\ [][DispNext]_vars
\* ScrollSyncLock under arbitrary calls of its methods
LockSpec == OneDomInit /\ [][LockNext]_vars
\* the same, where the calls may stop and a timer that is pending eventually runs
LockFair == OneDomInit /\ [][LockFairNext]_vars /\ WF_vars(TimeNext)
\* ScrollSyncLock driven by the scroll handlers of App
AppSpec == Init /\ [][AppNext]_vars
\* the preview requests of a newly mounted App
PreviewSpec == NewInit /\ [][PreviewNext]_vars
\* the same while the editor is scrolled
PreviewSyncSpec == NewInit /\ [][PreviewSyncNext]_vars
\* ScrollSyncMapper under arbitrary calls of its methods beside a surface
MapperSpec == SurfaceInit /\ [][MapperNext]_vars


(***************************************************************************)
(* Parse dispatcher properties                                             *)
(***************************************************************************)
\* does the promise record p hold the payload of the response data?
SettledWith(p, data) ==
    /\ p.state # "pending"
    /\ p.value \in {data.html, data.error}
    /\ data.error = UNDEFINED => p.state = "resolved" /\ p.value = data.html

\* C1: resolve/reject is called at most once on every promise, and the
\* delivery of the response carrying id i settles the pending promise that was
\* created for id i with that response's payload and touches no other promise,
\* in whatever order the responses arrive.
C1_SettledOnceNoCrossTalk ==
    [][ /\ \A p \in DOMAIN promises' : promises'[p].calls <= 1
        /\ ev'.op = "message" =>
              \A p \in DOMAIN promises :
                 IF promises[p].id = ev'.data.id /\ promises[p].state = "pending"
                 THEN SettledWith(promises'[p], ev'.data) /\ promises'[p].calls = 1
                 ELSE promises'[p] = promises[p] ]_vars

\* a response overtook an earlier submission: the later promise is resolved
\* with its own html while the earlier one is still pending
C1_Witness ==
    /\ ev.op = "message"
    /\ \E p, q \in DOMAIN promises :
          /\ p < q
          /\ promises[p].state = "pending"
          /\ promises[q].state = "resolved"
          /\ promises[q].value = Render("b")
          /\ promises[q].id = ev.data.id

\* C2: the worker's 'error' event rejects every promise pending at that
\* moment and leaves the pending table empty.
C2_FatalRejectsAll ==
    [][ ev'.op = "error" =>
          /\ pendingRequests' = <<>>
          /\ \A p \in DOMAIN promises :
                promises[p].state = "pending" => promises'[p].state = "rejected" ]_vars

\* an 'error' event has just rejected two outstanding promises
C2_Witness ==
    /\ ev.op = "error"
    /\ Cardinality({p \in DOMAIN promises :
                       promises[p].state = "rejected" /\ promises[p].value = ErrWorker}) >= 2

\* C3: after terminate() no promise of a submitted request is left pending
\* (every caller pending at the call was rejected).
C3_TerminateRejectsPending ==
    ev.op = "terminate" => \A p \in DOMAIN promises : promises[p].state # "pending"

\* the promises of the submissions that were given an id, in call order
Assigned == SelectSeq(promises, LAMBDA p : p.id # 0)

\* C16: the submissions that are given an id get 1, 2, 3, ... in call order,
\* so no id is given twice, whatever settlements, 'error' events and
\* terminate() calls lie between them; messageId is the last id given and
\* every key of the pending table is between 1 and messageId.
C16_RequestIds ==
    /\ \A i \in DOMAIN Assigned : Assigned[i].id = i
    /\ messageId = Len(Assigned)
    /\ \A k \in DOMAIN pendingRequests : 1 <= k /\ k <= messageId

\* the third submission has just been given id 3 after one earlier request
\* was resolved and another rejected by an 'error' event
C16_Witness ==
    /\ ev.op = "parseMarkdown"
    /\ ev.id = MaxSubmit
    /\ DOMAIN pendingRequests = {MaxSubmit}
    /\ \E p, q \in DOMAIN promises :
          /\ promises[p].state = "resolved"
          /\ promises[q].state = "rejected"
          /\ promises[q].value = ErrWorker

\* C17: a parseMarkdown call that follows the worker's 'error' event is not
\* taken in as a pending request.
C17_NoSubmitAfterFatal ==
    [][ (ev.op = "error" /\ ev'.op = "parseMarkdown") =>
           ev'.id \notin DOMAIN pendingRequests' ]_vars

\* C18: the delivery of a response for a pending id rejects the promise with
\* the response's error message whenever the response carries one, the empty
\* message included, and resolves it with the response's html otherwise, the
\* empty html included.
C18_ResponseDiscrimination ==
    [][ ev'.op = "message" =>
           \A p \in DOMAIN promises :
              (promises[p].id = ev'.data.id /\ promises[p].state = "pending") =>
                 IF ev'.data.error # UNDEFINED
                 THEN /\ promises'[p].state = "rejected"
                      /\ promises'[p].value = ev'.data.error
                 ELSE /\ promises'[p].state = "resolved"
                      /\ promises'[p].value = ev'.data.html ]_vars


\* C27: the delivery of a worker message whose id has no entry in the pending
\* table settles no promise, calls no resolve or reject, and leaves the
\* table, the id counter and the worker as they were.
C27_UnknownResponseIgnored ==
    [][ (ev'.op = "message" /\ ev'.data.id \notin DOMAIN pendingRequests) =>
           /\ promises' = promises
           /\ pendingRequests' = pendingRequests
           /\ messageId' = messageId
           /\ worker' = worker
           /\ toWorker' = toWorker ]_vars

\* the html of request 1 has just arrived after the 'error' event rejected
\* it, while request 2, made since, is pending
C27_Witness ==
    /\ ev.op = "message"
    /\ ev.data.id = 1
    /\ ev.data.html = Render("a")
    /\ Len(promises) >= 2
    /\ promises[1].state = "rejected"
    /\ promises[1].value = ErrWorker
    /\ promises[1].calls = 1
    /\ DOMAIN pendingRequests = {2}
    /\ promises[2].state = "pending"

\* C28: terminate() leaves the manager without a worker for good, and from
\* then on every parseMarkdown call returns a promise that is already
\* rejected with 'Worker not initialized', while the id counter, the pending
\* table, the messages posted and the promises of earlier calls stay as they
\* were.
C28_SubmitAfterTerminate ==
    [][ /\ ev'.op = "terminate" => worker' = NULL
        /\ worker = NULL => worker' = NULL
        /\ (ev'.op = "parseMarkdown" /\ worker = NULL) =>
              /\ ev'.id = 0
              /\ Len(promises') = Len(promises) + 1
              /\ SubSeq(promises', 1, Len(promises)) = promises
              /\ promises'[Len(promises')].state = "rejected"
              /\ promises'[Len(promises')].value = ErrNotInitialized
              /\ messageId' = messageId
              /\ pendingRequests' = pendingRequests
              /\ toWorker' = toWorker
              /\ fromWorker' = fromWorker ]_vars

\* a call after terminate() has just been rejected; the call before
\* terminate() had been given id 1 and is still pending (see C3)
C28_Witness ==
    /\ ev.op = "parseMarkdown"
    /\ ev.id = 0
    /\ worker = NULL
    /\ messageId = 1
    /\ Len(promises) = 2
    /\ promises[1].id = 1
    /\ promises[2].state = "rejected"
    /\ promises[2].value = ErrNotInitialized
    /\ pendingRequests = <<>>
    /\ toWorker = {}

(***************************************************************************)
(* Scroll coordinator properties                                           *)
(***************************************************************************)
Other(view) == IF view = "editor" THEN "preview" ELSE "editor"

\* C4: tryAcquire(source) returns true, makes source the holder and restarts
\* the expiry timer exactly when the lock is free or already held by source;
\* otherwise it returns false and leaves holder and expiry timer as they were.
\* So while editor holds the lock tryAcquire('preview') fails, and it succeeds
\* once the lock has been released.
C4_TryAcquire ==
    [][ ev'.op = "tryAcquire" =>
          IF currentSource = NULL \/ currentSource = ev'.source
          THEN /\ ev'.ok
               /\ currentSource' = ev'.source
               /\ lockTimer' = [source |-> ev'.source, left |-> lockTimeout, live |-> TRUE]
          ELSE /\ ~ev'.ok
               /\ UNCHANGED <<currentSource, lockTimer>> ]_vars

\* tryAcquire('preview') has just failed against editor's running hold
C4_Witness ==
    /\ ev.op = "tryAcquire"
    /\ ev.source = "preview"
    /\ ~ev.ok
    /\ currentSource = "editor"
    /\ lockTimer # NullRef
    /\ lockTimer.left < lockTimeout

\* C5: release(source) frees the lock and cancels the expiry timer when source
\* is the holder; otherwise holder and expiry timer stay as they were; in both
\* cases the sync hint, its timer and the debounce timer are untouched.
C5_Release ==
    [][ ev'.op = "release" =>
          /\ IF currentSource = ev'.source
             THEN currentSource' = NULL /\ lockTimer' = NullRef
             ELSE UNCHANGED <<currentSource, lockTimer>>
          /\ UNCHANGED <<syncingTo, syncTimer, debounceTimer>> ]_vars

\* release('preview') was called while editor held the lock, with a hint set
\* and a debounce pending: editor still holds it
C5_Witness ==
    /\ ev.op = "release"
    /\ ev.source = "preview"
    /\ currentSource = "editor"
    /\ lockTimer # NullRef
    /\ syncingTo # NULL
    /\ debounceTimer # NullRef

\* C6: once no more calls or scroll events occur and pending timers keep
\* firing, the lock becomes free and the sync hint becomes none.
C6_NoWedge == quiet ~> (currentSource = NULL /\ syncingTo = NULL)

\* the calls have stopped while the lock is held and a hint is set
C6_Witness ==
    /\ quiet
    /\ currentSource \in Views
    /\ syncingTo \in Views
    /\ releaseTimers = <<>>

\* C7: right after markSyncingTo(target) the hint is target; the hint then
\* changes only when it is marked again, force-released, or when its timer
\* fires, which happens exactly syncDuration after the latest mark and resets
\* it to none; a hint never outlives that window.
C7_HintLifecycle ==
    [][ /\ ev'.op = "markSyncingTo" => syncingTo' = ev'.source /\ hintAge' = 0
        /\ (syncingTo # NULL /\ syncingTo' # syncingTo) =>
              \/ ev'.op \in {"markSyncingTo", "forceRelease"}
              \/ ev'.op = "debounceTimer" /\ ev'.ran # NullRef
              \/ ev'.op = "syncTimer" /\ hintAge = syncDuration /\ syncingTo' = NULL
        /\ syncingTo' # NULL => hintAge' >= 0 /\ hintAge' <= syncDuration ]_vars

\* the hint's timer has just reset a hint that was marked syncDuration ago
C7_Witness ==
    /\ ev.op = "syncTimer"
    /\ syncingTo = NULL
    /\ syncTimer = NullRef

\* C8: a scroll event handled by view X's handler while the hint is X changes
\* nothing: no debounce timer is started or restarted, holder, hint and their
\* timers stay, and neither view is scrolled by the program.
C8_FeedbackBreak ==
    [][ ( \/ ev'.op = "handleEditorScroll" /\ syncingTo = "editor"
          \/ ev'.op = "handlePreviewScroll" /\ syncingTo = "preview" ) =>
          /\ ~ev'.ok
          /\ ev'.scrolled = NULL
          /\ UNCHANGED <<lockVars, previewScrollTop, editorLine>> ]_vars

\* the preview handler has just dropped an event while the preview was the
\* target of a programmatic scroll started by the editor
C8_Witness ==
    /\ ev.op = "handlePreviewScroll"
    /\ ~ev.ok
    /\ mounted
    /\ syncingTo = "preview"
    /\ currentSource = "editor"

\* C9: a debounce call runs nothing and leaves one pending timer holding its
\* own source and action with a full quiet period ahead; an action runs only
\* in the timer callback, the debounceDelay of the latest call after that call
\* (the quiet period it was made with), it is the action
\* of that latest call, it runs exactly when tryAcquire(source) succeeds, and
\* then release(source) is scheduled releaseDelay later; the callback leaves
\* no debounce pending.
C9_DebounceCoalesces ==
    [][ /\ ev'.op = "debounce" =>
              /\ ev'.ran = NullRef
              /\ debounceTimer' = [source |-> ev'.source, cb |-> ev'.arg,
                                   left |-> debounceDelay, delay |-> debounceDelay]
              /\ debounceAge' = 0
        /\ ev'.ran # NullRef =>
              /\ ev'.op = "debounceTimer"
              /\ ev'.ran = debounceTimer.cb
              /\ debounceAge = debounceTimer.delay
        /\ ev'.op = "debounceTimer" =>
              /\ debounceTimer' = NullRef
              /\ IF currentSource = NULL \/ currentSource = debounceTimer.source
                 THEN /\ ev'.ran = debounceTimer.cb
                      /\ currentSource' = debounceTimer.source
                      /\ releaseTimers' =
                            Append(releaseTimers, [source |-> debounceTimer.source,
                                                   left |-> releaseDelay])
                 ELSE ev'.ran = NullRef
        /\ debounceTimer' # NullRef =>
              debounceAge' >= 0 /\ debounceAge' <= debounceTimer'.delay
      ]_vars

\* the action of the last call of a burst has just run: the burst restarted
\* the quiet period at least once with another action
C9_Witness ==
    /\ ev.op = "debounceTimer"
    /\ ev.burst = "restarted"
    /\ ev.ran = [kind |-> "editor", line |-> 3]
    /\ releaseTimers = <<[source |-> "editor", left |-> releaseDelay]>>

\* C10: when the debounce timer fires for a source while the other view
\* holds the lock, the action does not run, holder, expiry timer, hint and
\* scheduled releases are unchanged and no debounce stays pending; and the
\* program scrolls a view only in an action whose source holds the lock
\* afterwards, the scrolled view being the other one.
C10_ContentionDrops ==
    [][ /\ ( /\ ev'.op = "debounceTimer"
             /\ currentSource \in Views
             /\ currentSource # debounceTimer.source ) =>
              /\ ~ev'.ok
              /\ ev'.ran = NullRef
              /\ ev'.scrolled = NULL
              /\ debounceTimer' = NullRef
              /\ UNCHANGED <<currentSource, lockTimer, syncingTo, syncTimer,
                             releaseTimers, previewScrollTop, editorLine>>
        /\ ev'.scrolled # NULL =>
              /\ ev'.ran # NullRef
              /\ ev'.ran.kind = ev'.source
              /\ currentSource' = ev'.source
              /\ ev'.scrolled = Other(ev'.source) ]_vars

\* preview's debounce timer has just fired while editor held the lock
C10_Witness ==
    /\ ev.op = "debounceTimer"
    /\ ev.source = "preview"
    /\ ~ev.ok
    /\ currentSource = "editor"
    /\ debounceTimer = NullRef

\* C24: a debounce call leaves exactly its own action pending, whichever
\* source had one pending before (that one is cleared); an action runs only
\* as the pending one, a full quiet period after the latest debounce call of
\* either source, and its source is that of the latest call.
C24_SingleDebounceSlot ==
    [][ /\ ev'.op = "debounce" =>
              /\ debounceTimer' = [source |-> ev'.source, cb |-> ev'.arg,
                                   left |-> debounceDelay, delay |-> debounceDelay]
              /\ ev'.cancelled = (IF debounceTimer = NullRef THEN NULL
                                  ELSE debounceTimer.source)
              /\ ev'.ran = NullRef
        /\ ev'.ran # NullRef =>
              /\ debounceTimer # NullRef
              /\ ev'.ran = debounceTimer.cb
              /\ ev'.source = debounceTimer.source
              /\ debounceTimer.left = 0
              /\ debounceAge = debounceTimer.delay
              /\ debounceTimer' = NullRef ]_vars

\* a debounce call of the preview has just cleared the pending action of the
\* editor, and only the preview's action is pending
C24_Witness ==
    /\ ev.op = "debounce"
    /\ ev.source = "preview"
    /\ ev.cancelled = "editor"
    /\ debounceTimer # NullRef
    /\ debounceTimer.source = "preview"
    /\ debounceTimer.cb.kind = "preview"

\* C25: whenever a debounced action has run under App's scroll handlers, the
\* hint it found was not its own source: the view the program is scrolling
\* does not propagate a scroll back.
C25_NoReverseSync ==
    (ev.op = "debounceTimer" /\ ev.ran # NullRef) => ev.hint # ev.source

\* the preview's action has just run while the hint named the editor, set by
\* an action of the preview less than syncDuration before
C25_Witness ==
    /\ ev.op = "debounceTimer"
    /\ ev.source = "preview"
    /\ ev.ran = [kind |-> "preview", line |-> 0]
    /\ ev.hint = "editor"
    /\ ev.scrolled = "editor"
    /\ syncingTo = "editor"

\* C26: the expiry timer is set exactly while the lock is held, it is then the
\* one armed by the holder's latest acquisition (it has not fired and it names
\* the holder), and when it has fired the lock it was armed for is released and
\* no timer is left.
C26_LockTimerConsistent ==
    /\ (currentSource # NULL) <=> (lockTimer # NullRef)
    /\ lockTimer # NullRef =>
          /\ lockTimer.live
          /\ lockTimer.source = currentSource
          /\ lockTimer.left \in 0..lockTimeoutDefault
    /\ ev.op = "lockTimer" => currentSource = NULL /\ lockTimer = NullRef

\* the expiry timer of the editor's hold has just fired, with a debounce of
\* the preview pending
C26_Witness ==
    /\ ev.op = "lockTimer"
    /\ ev.source = "editor"
    /\ currentSource = NULL
    /\ lockTimer = NullRef
    /\ debounceTimer # NullRef
    /\ debounceTimer.source = "preview"

\* C23: while App is mounted (forceRelease is only called when it unmounts),
\* the lock is held by the source of every debounced action whose release
\* delay has not elapsed yet.
C23_GraceHold ==
    mounted => \A i \in DOMAIN releaseTimers :
                  releaseTimers[i].left > 0 => currentSource = releaseTimers[i].source

(***************************************************************************)
(* Preview properties                                                      *)
(***************************************************************************)
\* the request id can still be settled: the worker exists, and it holds the
\* request's message or has posted its response
Settleable(id) ==
    /\ worker # NULL
    /\ \/ \E msg \in toWorker : msg.id = id
       \/ \E resp \in fromWorker : resp.id = id

\* C19: when the promise a preview request awaits is rejected, the preview
\* shows what it showed when the request was made and the step changes
\* nothing of it; the render that follows leaves the preview as it is and
\* makes isLoading false, and isLoading is true only while a request or the
\* render of its outcome is outstanding; every later request with a text is
\* given the next id, entered in the pending table and posted, and every
\* request in the pending table can still be settled.
C19_ParseFailureNonFatal ==
    [][ /\ \A a \in awaiting :
             promises'[a.p].state = "rejected" =>
                /\ htmlPreview' = a.shown
                /\ htmlPreview' = htmlPreview
                /\ previewDom' = previewDom
        /\ ev'.op = "render" =>
             /\ ~isLoading'
             /\ \A i \in 1..Len(queued) :
                   promises[queued[i].p].state = "rejected" =>
                      /\ htmlPreview' = queued[i].shown
                      /\ htmlPreview' = htmlPreview
                      /\ previewDom' = previewDom
        /\ (mounted' /\ isLoading') => (awaiting' # {} \/ queued' # <<>>)
        /\ (ev'.op = "handlePreview" /\ markdownContent # "") =>
                /\ ev'.id = messageId + 1
                /\ ev'.id \in DOMAIN pendingRequests'
                /\ [id |-> ev'.id, markdown |-> markdownContent] \in toWorker'
        /\ \A id \in DOMAIN pendingRequests' : Settleable(id)' ]_vars

\* the outcome of the second request, rejected with the parse error, has just
\* been rendered while the preview shows the html of the first
C19_Witness ==
    /\ ev.op = "render"
    /\ Len(ev.updates) = 1
    /\ ev.updates[1].p = Len(promises)
    /\ promises[Len(promises)].state = "rejected"
    /\ promises[Len(promises)].value = "boom"
    /\ htmlPreview = Render("a")
    /\ mounted
    /\ ~isLoading
    /\ awaiting = {}

\* C21 (as stated): a preview request that is outstanding does not keep the
\* call site from making the next one, so that two are outstanding and the
\* response of the earlier one can arrive last and be shown.
C21_StaleResultReachable ==
    (mounted /\ awaiting # {} /\ markdownContent # "" /\ Len(promises) < MaxPreview)
        => ENABLED handlePreview

\* C21: at most one preview request is outstanding (awaited, or settled and not
\* rendered yet), isLoading says whether one is, and whenever a step changes
\* the html that is shown it is the render of the latest request, which was
\* resolved with that html.
C21_LatestRequestShown ==
    [][ /\ Cardinality(awaiting') + Len(queued') <= 1
        /\ mounted' => (isLoading' = (awaiting' # {} \/ queued' # <<>>))
        /\ htmlPreview' # htmlPreview =>
              /\ ev'.op = "render"
              /\ promises[Len(promises)].state = "resolved"
              /\ promises[Len(promises)].id = messageId
              /\ htmlPreview' = promises[Len(promises)].value ]_vars

\* the html of a second request has replaced the html of the first
C21_Witness ==
    /\ ev.op = "render"
    /\ Len(promises) = 2
    /\ promises[1].state = "resolved"
    /\ promises[2].state = "resolved"
    /\ promises[1].value = Render("a")
    /\ promises[2].value = Render("b")
    /\ htmlPreview = Render("b")

\* the table stems from the html that is shown (none for an empty preview
\* that never had a table)
Fresh ==
    IF builtFrom = NullRef THEN htmlPreview = "" ELSE builtFrom.html = htmlPreview

\* C20: whenever the callback of a scroll sync has looked a position up, the
\* table it read was built from the html the preview shows.
C20_LookupsReadFreshTable ==
    (ev.op = "debounceTimer" /\ ev.ran # NullRef) => Fresh

(***************************************************************************)
(* Position mapper properties                                              *)
(***************************************************************************)
\* C11: while the table is empty, findMappingByLine returns the entry
\* {line 1, offsetTop 0} and findLineByScrollTop returns 1, for every argument.
C11_EmptyTableDefaults ==
    mappings = <<>> =>
        /\ ev.op = "findMappingByLine" => ev.result = [line |-> 1, offsetTop |-> 0]
        /\ ev.op = "findLineByScrollTop" => ev.result = 1

\* C12: on a non-empty table findMappingByLine(line) returns an entry of the
\* table: the first one when line is below the first line, the last one when
\* line is above the last line, and otherwise an entry whose line is the
\* greatest line of the table that is <= line (line itself when it is there).
C12_ClampedFloorMatch ==
    (ev.op = "findMappingByLine" /\ mappings # <<>>) =>
        LET first == mappings[1]
            last == mappings[Len(mappings)]
        IN /\ \E i \in DOMAIN mappings : mappings[i] = ev.result
           /\ ev.line < first.line => ev.result = first
           /\ ev.line > last.line => ev.result = last
           /\ (first.line <= ev.line /\ ev.line <= last.line) =>
                 /\ ev.result.line <= ev.line
                 /\ \A i \in DOMAIN mappings :
                       mappings[i].line <= ev.line => mappings[i].line <= ev.result.line

\* on [{1,0},{5,100},{10,300}] line 7 has just been answered with {5,100}
C12_Witness ==
    /\ ev.op = "findMappingByLine"
    /\ mappings = ExampleTable
    /\ ev.line = 7
    /\ ev.result = [line |-> 5, offsetTop |-> 100]

\* r is a.line + (offset - a.offsetTop) / (b.offsetTop - a.offsetTop) *
\* (b.line - a.line) rounded to the nearest integer, halves up
RoundsHalfUp(r, a, b, offset) ==
    LET den == b.offsetTop - a.offsetTop
        x2den == 2 * (a.line * den + (offset - a.offsetTop) * (b.line - a.line))
    IN 2 * den * r - den <= x2den /\ x2den < 2 * den * r + den

\* r is an integer nearest to the interpolation x between a and b at offset:
\* at a half either neighbour, and the upper one when the offsets of a and b
\* are a power of two apart (the quotient is then exact in a double)
IsPowerOfTwo(n) == \E e \in 0..30 : n = 2^e
RoundsTo(r, a, b, offset) ==
    LET den == b.offsetTop - a.offsetTop
        x2den == 2 * (a.line * den + (offset - a.offsetTop) * (b.line - a.line))
    IN /\ 2 * den * r - den <= x2den /\ x2den <= 2 * den * r + den
       /\ IsPowerOfTwo(den) => RoundsHalfUp(r, a, b, offset)

Brackets(i, offset) ==
    mappings[i].offsetTop <= offset /\ offset < mappings[i + 1].offsetTop

\* C13 as stated: on a non-empty table findLineByScrollTop(offset) returns the
\* first line when offset is at or below the first offsetTop, the last line
\* when it is at or above the last offsetTop, and otherwise the rounded
\* interpolation between a pair of consecutive entries that brackets offset.
C13_ClampsAndInterpolates ==
    (ev.op = "findLineByScrollTop" /\ mappings # <<>>) =>
        LET n == Len(mappings)
            offset == ev.scrollTop
        IN /\ offset <= mappings[1].offsetTop => ev.result = mappings[1].line
           /\ offset >= mappings[n].offsetTop => ev.result = mappings[n].line
           /\ (offset > mappings[1].offsetTop /\ offset < mappings[n].offsetTop) =>
                 \E i \in 1..(n - 1) :
                    /\ Brackets(i, offset)
                    /\ RoundsHalfUp(ev.result, mappings[i], mappings[i + 1], offset)

\* C13 with the order of the tests and the arithmetic of doubles: the first
\* line when offset is at or below the first offsetTop; failing that, the last
\* line when offset is at or above the last offsetTop; failing that, a
\* bracketing pair exists and the result is an integer nearest to the
\* interpolation between the first such pair: at an exact half the upper one
\* when the offsets of the pair are a power of two apart, else either one.
C13_InterpolatesInOrder ==
    (ev.op = "findLineByScrollTop" /\ mappings # <<>>) =>
        LET n == Len(mappings)
            offset == ev.scrollTop
        IN /\ offset <= mappings[1].offsetTop => ev.result = mappings[1].line
           /\ (offset > mappings[1].offsetTop /\ offset >= mappings[n].offsetTop) =>
                 ev.result = mappings[n].line
           /\ (offset > mappings[1].offsetTop /\ offset < mappings[n].offsetTop) =>
                 \E i \in 1..(n - 1) :
                    /\ Brackets(i, offset)
                    /\ \A j \in 1..(i - 1) : ~Brackets(j, offset)
                    /\ RoundsTo(ev.result, mappings[i], mappings[i + 1], offset)

\* on [{1,0},{5,100},{10,300}] offset 200 has just been answered with line 8,
\* the half 7.5 rounded up
C13_Witness ==
    /\ ev.op = "findLineByScrollTop"
    /\ mappings = ExampleTable
    /\ ev.scrollTop = 200
    /\ ev.result = 8

\* C14: in the table every entry has a line and an offsetTop that are no
\* less than those of the entry before it.
C14_TableOrdered ==
    \A i \in 1..(Len(mappings) - 1) :
       /\ mappings[i + 1].line >= mappings[i].line
       /\ mappings[i + 1].offsetTop >= mappings[i].offsetTop

\* C15: a buildMappingTable() that follows one on the same elements at the same
\* positions leaves the table as it was, wherever the surface is scrolled to
\* at either call; and a table just built has no more entries than the
\* surface has elements.
C15_RebuildIdempotent ==
    [][ (ev'.op = "buildMappingTable" /\ ev'.ok) =>
           /\ Len(mappings') <= Len(previewDom)
           /\ (builtFrom # NullRef /\ builtFrom.dom = previewDom) =>
                 mappings' = mappings ]_vars

\* a table of two entries, one from an element at a fractional position, has
\* just been built again while the surface was scrolled down
C15_Witness ==
    /\ ev.op = "buildMappingTable"
    /\ ev.again
    /\ previewScrollTop = MaxTop
    /\ Len(mappings) = 2
    /\ \E i \in DOMAIN previewDom : Annotated(previewDom[i]) /\ previewDom[i].top2 % 2 = 1

\* the table is sorted by line and its offsets do not decrease
NonDecreasing ==
    \A i \in 1..(Len(mappings) - 1) :
       /\ mappings[i].line <= mappings[i + 1].line
       /\ mappings[i].offsetTop <= mappings[i + 1].offsetTop

\* entries at the same offset have the same line
OffsetsTellLines ==
    \A i, j \in DOMAIN mappings :
       mappings[i].offsetTop = mappings[j].offsetTop => mappings[i].line = mappings[j].line

\* findLineByScrollTop has just answered for the offset that findMappingByLine
\* gives for the line of entry i
LookedUpOffsetOf(i) ==
    /\ ev.op = "findLineByScrollTop"
    /\ findMappingByLine(mappings[i].line).offsetTop = ev.scrollTop

LastAt(offset) ==
    CHOOSE j \in DOMAIN mappings :
       /\ mappings[j].offsetTop = offset
       /\ \A k \in DOMAIN mappings : mappings[k].offsetTop = offset => k <= j

EntryOf(element) == buildMappingTable(<<element>>, previewScrollTop)[1]

\* C22: in a table that buildMappingTable() has just built no two entries have
\* the same line, and every entry is the entry of the first element of the
\* surface, in document order, that is annotated with its line.
C22_OneEntryPerLine ==
    (ev.op = "buildMappingTable" /\ ev.ok) =>
        LET elements == SelectSeq(previewDom, Annotated) IN
        /\ \A i, j \in DOMAIN mappings : mappings[i].line = mappings[j].line => i = j
        /\ \A i \in DOMAIN mappings :
              \E k \in DOMAIN elements :
                 /\ mappings[i] = EntryOf(elements[k])
                 /\ \A h \in 1..(k - 1) : EntryOf(elements[h]).line # mappings[i].line

====
